---- MODULE Spec2Model ----
(***************************************************************************)
(* Model of sck-rs: enumeration of displays and windows through the        *)
(* composition service (ScreenCaptureKit), single-frame capture, pixel     *)
(* buffer extraction (BGRA to RGBA) and the window crop.                   *)
(*                                                                         *)
(* Numbers.  The service reports frames as f64 rectangles.  An f64 value   *)
(* is modelled in fixed point as the integer 2*v, so that halves exist and *)
(* the casts `as u32` / `as i32` are real truncations.  Values above the   *)
(* u32 range are outside the bounds of the model; the lower saturation of  *)
(* `as u32` (negative values become 0) is modelled.                        *)
(***************************************************************************)
EXTENDS Integers, Sequences, FiniteSets, TLC

VARIABLES
    osError,      \* outcome of SCShareableContent::current: NoError or the OS description
    osDisplays,   \* displays of the composition service, in enumeration order
    osWindows,    \* windows of the composition service, in enumeration order
    cgWindows,    \* CGWindowListCopyWindowInfo: window id -> entry or None
    monitorsRes,  \* result of the last Monitor::all, or None
    windowsRes,   \* result of the last Window::all, or None
    primaryRes,   \* result of the last Monitor::primary, or None
    self,         \* the Monitor or Window capture_image is called on, or None
    pc,           \* position of the capture call
    window_frame, \* capture_window_async: frame of the window found, or None
    display,      \* the display found for the content filter, or None
    cfg,          \* the stream configuration of the frame request, or None
    frameError,   \* the OS description of a failed frame request, or NoError
    image_buf,    \* the pixel buffer of the delivered sample, or None
    lockResult,   \* image_buf_to_rgba: "none", "ok" or "err"
    locked,       \* whether the read-only lock on the buffer is held
    extracted,    \* image_buf_to_rgba: its local `result`, or None
    counts,       \* OS requests and lock operations issued by this call
    crop,         \* capture_window_async: the crop rectangle, or None
    result,       \* what capture_image returned, or None
    entry,        \* per call: the blocking entry point called
    inContext,    \* per call: whether the calling thread is inside a tokio context
    callPc,       \* per call: position of the thread that performs the blocking wait
    onWorker,     \* per call: whether that thread is a spawned worker
    spawned,      \* per call: worker threads spawned by run_in_thread
    joined,       \* per call: worker threads joined by run_in_thread
    rt,           \* per call: the runtime instance the deref of RUNTIME gave, or 0
    outcome,      \* per call: the result of the blocking wait, or None
    runtime,      \* the Lazy cell of RUNTIME: "uninit", "building" or "built"
    builds,       \* runtimes built by the initialiser of RUNTIME
    entered,      \* the entries into Runtime::block_on so far
    queried,      \* the Window whose state is queried, or None
    minimizedRes, \* what Window::is_minimized returned, or None
    focusedRes,   \* what Window::is_focused returned, or None
    onScreenRes   \* what Window::is_on_screen returned, or None

enumVars == <<osError, osDisplays, osWindows, cgWindows, monitorsRes, windowsRes,
              primaryRes>>
captureVars == <<self, pc, window_frame, display, cfg, frameError, image_buf, lockResult,
                 locked, extracted, counts, crop, result>>
runtimeVars == <<entry, inContext, callPc, onWorker, spawned, joined, rt, outcome,
                 runtime, builds, entered>>
queryVars == <<queried, minimizedRes, focusedRes, onScreenRes>>
vars == <<enumVars, captureVars, runtimeVars, queryVars>>

----------------------------------------------------------------------------
(* Bounds *)

MaxDisplays == 2
MaxWindows == 2
MaxCalls == 2

----------------------------------------------------------------------------
(* Values *)

\* Option: None, or Some(v)
None == <<>>
Some(v) == <<v>>
NoError == <<>>

\* the f64 value n.0 in fixed point
F(n) == 2 * n

\* f64 `as u32`: truncation toward zero, negative values saturate to 0
AsU32(v) == IF v < 0 THEN 0 ELSE v \div 2

\* f64 `as i32`: truncation toward zero
AsI32(v) == IF v < 0 THEN -((-v) \div 2) ELSE v \div 2

Ok(v) == [ok |-> TRUE, val |-> v]
Err(e) == [ok |-> FALSE, err |-> e]

\* XCapError constructors; `os` carries the OS description quoted in the message
XCapError(kind, id, msg, os) == [kind |-> kind, id |-> id, msg |-> msg, os |-> os]
no_windows == XCapError("NoWindows", 0, "No windows found", NoError)
no_monitors == XCapError("NoMonitors", 0, "No monitors found", NoError)
permission_denied == XCapError("PermissionDenied", 0, "Screen recording permission not granted", NoError)
capture_failed(details, os) == XCapError("CaptureFailed", 0, details, os)
window_not_found(window_id) == XCapError("WindowNotFound", window_id, "Window not found", NoError)
monitor_not_found(monitor_id) == XCapError("MonitorNotFound", monitor_id, "Monitor not found", NoError)

Range(s) == {s[i] : i \in DOMAIN s}

SeqsUpTo(S, n) == UNION {[1..k -> S] : k \in 0..n}

\* Iterator::find over the indices that satisfy the predicate: the first, or 0
FindFirst(matching) ==
    IF matching = {} THEN 0
    ELSE CHOOSE i \in matching : \A j \in matching : i <= j

----------------------------------------------------------------------------
(* OS error descriptions: format!("{:?}", e), as character sequences *)

Chars(w) ==
    CASE w = "permission" -> <<"p","e","r","m","i","s","s","i","o","n">>
      [] w = "denied" -> <<"d","e","n","i","e","d">>
      [] w = "-3801" -> <<"-","3","8","0","1">>
      [] w = "timeout" -> <<"t","i","m","e","o","u","t">>
      [] w = "code=" -> <<"c","o","d","e","=">>
      [] w = "user " -> <<"u","s","e","r"," ">>

\* str::contains
Contains(s, pat) ==
    \E i \in 1..(Len(s) - Len(pat) + 1) : SubSeq(s, i, i + Len(pat) - 1) = pat

OsErrors ==
    { Chars("timeout"),
      Chars("user ") \o Chars("denied"),
      Chars("code=") \o Chars("-3801"),
      Chars("permission") }

\* faulty variant: only the word 'permission' is recognised
get_shareable_content_permission_only(err, displays, windows) ==
    IF err = NoError
    THEN Ok([displays |-> displays, windows |-> windows])
    ELSE IF Contains(err, Chars("permission"))
         THEN Err(permission_denied)
         ELSE Err(capture_failed("Failed to get shareable content", err))

\* get_shareable_content: the query's result with the error mapped
get_shareable_content(err, displays, windows) ==
    IF err = NoError
    THEN Ok([displays |-> displays, windows |-> windows])
    ELSE IF Contains(err, Chars("permission")) \/ Contains(err, Chars("denied"))
            \/ Contains(err, Chars("-3801"))
         THEN Err(permission_denied)
         ELSE Err(capture_failed("Failed to get shareable content", err))

----------------------------------------------------------------------------
(* Monitor::all *)

IsAtOrigin(d) == d.x = 0 /\ d.y = 0

\* faulty variant: the first display, whatever the origins
PrimaryIdOfFirst(displays) ==
    IF displays # <<>> THEN displays[1].id ELSE 0

\* the id of the first display with frame origin (0,0), else of the first display
PrimaryId(displays) ==
    LET i == FindFirst({k \in DOMAIN displays : IsAtOrigin(displays[k])})
    IN  IF i # 0 THEN displays[i].id
        ELSE IF displays # <<>> THEN displays[1].id ELSE 0

\* faulty variant: every display at the origin is flagged
MakeMonitorByOrigin(d, primary_id) ==
    [display_id |-> d.id,
     x |-> AsI32(d.x),
     y |-> AsI32(d.y),
     width |-> d.w,
     height |-> d.h,
     is_primary |-> IsAtOrigin(d)]

\* the Monitor built from display d
MakeMonitor(d, primary_id) ==
    [display_id |-> d.id,
     x |-> AsI32(d.x),
     y |-> AsI32(d.y),
     width |-> d.w,
     height |-> d.h,
     is_primary |-> (d.id = primary_id)]

MonitorAll(err, displays, windows) ==
    LET content == get_shareable_content(err, displays, windows)
    IN  IF ~content.ok THEN content
        ELSE IF content.val.displays = <<>> THEN Err(no_monitors)
        ELSE LET ds == content.val.displays
                 primary_id == PrimaryId(ds)
             IN  Ok([i \in DOMAIN ds |-> MakeMonitor(ds[i], primary_id)])

\* faulty variant: the primary is looked up by its position
MonitorPrimaryAtOrigin(err, displays, windows) ==
    LET monitors == MonitorAll(err, displays, windows)
    IN  IF ~monitors.ok THEN monitors
        ELSE LET i == FindFirst({k \in DOMAIN monitors.val :
                                    monitors.val[k].x = 0 /\ monitors.val[k].y = 0})
             IN  IF i = 0
                 THEN Err(XCapError("Other", 0, "No primary monitor found", NoError))
                 ELSE Ok(monitors.val[i])

\* Monitor::primary: the first Monitor of Monitor::all flagged is_primary
MonitorPrimary(err, displays, windows) ==
    LET monitors == MonitorAll(err, displays, windows)
    IN  IF ~monitors.ok THEN monitors
        ELSE LET i == FindFirst({k \in DOMAIN monitors.val : monitors.val[k].is_primary})
             IN  IF i = 0
                 THEN Err(XCapError("Other", 0, "No primary monitor found", NoError))
                 ELSE Ok(monitors.val[i])

----------------------------------------------------------------------------
(* Window::all *)

MinWindowSize == 10

\* faulty variant: a CGWindow record replaces what the service reported
MakeWindowCgFirst(w, cgwindow_info) ==
    LET title == IF w.title = None THEN "" ELSE w.title[1]
        app_name0 == IF w.app = None THEN "" ELSE w.app[1].name
        pid0 == IF w.app = None THEN -1 ELSE w.app[1].pid
        cg == cgwindow_info[w.id]
    IN  [window_id |-> w.id,
         app_name |-> IF cg # None /\ cg[1].name # "" THEN cg[1].name ELSE app_name0,
         title |-> title,
         pid |-> IF cg # None /\ cg[1].pid >= 0 THEN cg[1].pid ELSE pid0,
         x |-> AsI32(w.x),
         y |-> AsI32(w.y),
         width |-> AsU32(w.w),
         height |-> AsU32(w.h),
         is_on_screen |-> w.on_screen]

\* the Window built from composition-service window w and the CGWindow map
MakeWindow(w, cgwindow_info) ==
    LET title == IF w.title = None THEN "" ELSE w.title[1]
        app_name0 == IF w.app = None THEN "" ELSE w.app[1].name
        pid0 == IF w.app = None THEN -1 ELSE w.app[1].pid
        cg == cgwindow_info[w.id]
        fallback == (app_name0 = "" \/ pid0 < 0) /\ cg # None
        app_name == IF fallback /\ app_name0 = "" /\ cg[1].name # ""
                    THEN cg[1].name ELSE app_name0
        pid == IF fallback /\ pid0 < 0 /\ cg[1].pid >= 0 THEN cg[1].pid ELSE pid0
    IN  [window_id |-> w.id,
         app_name |-> app_name,
         title |-> title,
         pid |-> pid,
         x |-> AsI32(w.x),
         y |-> AsI32(w.y),
         width |-> AsU32(w.w),
         height |-> AsU32(w.h),
         is_on_screen |-> w.on_screen]

\* faulty variant: discards only when both dimensions are small
KeepWindowUnlessBothSmall(win) ==
    ~(win.width < MinWindowSize /\ win.height < MinWindowSize)

\* filter_map keeps a window unless it is too small
KeepWindow(win) == ~(win.width < MinWindowSize \/ win.height < MinWindowSize)

\* faulty variant: no check of the filtered list
WindowAllUnchecked(err, displays, sc_windows, cgwindow_info) ==
    LET content == get_shareable_content(err, displays, sc_windows)
    IN  IF ~content.ok THEN content
        ELSE IF content.val.windows = <<>> THEN Err(no_windows)
        ELSE LET ws == content.val.windows
                 built == [i \in DOMAIN ws |-> MakeWindow(ws[i], cgwindow_info)]
             IN  Ok(SelectSeq(built, KeepWindow))

WindowAll(err, displays, sc_windows, cgwindow_info) ==
    LET content == get_shareable_content(err, displays, sc_windows)
    IN  IF ~content.ok THEN content
        ELSE IF content.val.windows = <<>> THEN Err(no_windows)
        ELSE LET ws == content.val.windows
                 built == [i \in DOMAIN ws |-> MakeWindow(ws[i], cgwindow_info)]
                 windows == SelectSeq(built, KeepWindow)
             IN  IF windows = <<>> THEN Err(no_windows) ELSE Ok(windows)

----------------------------------------------------------------------------
(* image_buf_to_rgba: the native pixel buffer and its conversion *)

\* the byte of the buffer's memory at offset off (distinct at distinct offsets)
NativeByte(off) == (off * 37 + 11) % 256

\* CVPixelBufferGetBytesPerRow / plane_bytes_per_row(0), chosen by plane_count
BytesPerRow(b) == IF b.plane_count = 0 THEN b.bytes_per_row ELSE b.plane_bytes_per_row

\* CVPixelBufferGetBaseAddress / plane_base_address(0), chosen by plane_count
BaseIsNull(b) == IF b.plane_count = 0 THEN b.base_null ELSE b.plane_base_null

\* faulty variant: copies the four bytes in native order
PushPixelNoSwap(pixel_start) ==
    <<NativeByte(pixel_start), NativeByte(pixel_start + 1),
      NativeByte(pixel_start + 2), NativeByte(pixel_start + 3)>>

\* the four pushes of one pixel: R, G, B, A from B, G, R, A
PushPixel(pixel_start) ==
    <<NativeByte(pixel_start + 2), NativeByte(pixel_start + 1),
      NativeByte(pixel_start), NativeByte(pixel_start + 3)>>

\* row_start + col * 4
PixelStart(row, col, width, bytes_per_row) == row * bytes_per_row + col * 4

\* the two loops over rows and columns, from pixel number k on (row-major)
RECURSIVE ConvertFrom(_, _, _, _, _)
ConvertFrom(k, width, height, bytes_per_row, pixels_len) ==
    IF k >= width * height THEN <<>>
    ELSE LET row == k \div width
             col == k % width
             pixel_start == PixelStart(row, col, width, bytes_per_row)
         IN  (IF pixel_start + 3 < pixels_len THEN PushPixel(pixel_start) ELSE <<>>)
             \o ConvertFrom(k + 1, width, height, bytes_per_row, pixels_len)

\* faulty variant: the image is built from whatever was collected
from_raw_any_length(width, height, buffer) ==
    Some([width |-> width, height |-> height, data |-> buffer])

\* RgbaImage::from_raw: None unless the buffer holds width*height*4 bytes
from_raw(width, height, buffer) ==
    IF Len(buffer) >= width * height * 4
    THEN Some([width |-> width, height |-> height, data |-> buffer])
    ELSE None

\* the `result` of image_buf_to_rgba for a locked buffer b
ConvertBuffer(b) ==
    IF BaseIsNull(b)
    THEN Err(capture_failed("Pixel buffer base address is null", NoError))
    ELSE LET bytes_per_row == BytesPerRow(b)
             data_size == bytes_per_row * b.height
             buffer == ConvertFrom(0, b.width, b.height, bytes_per_row, data_size)
             image == from_raw(b.width, b.height, buffer)
         IN  IF image = None
             THEN Err(capture_failed("Failed to create image from buffer", NoError))
             ELSE Ok(image[1])

----------------------------------------------------------------------------
(* capture_monitor_async / capture_window_async *)

Min(a, b) == IF a < b THEN a ELSE b

\* u32::saturating_sub
saturating_sub(a, b) == IF a < b THEN 0 ELSE a - b

\* index of the display with the id, or 0
FindDisplay(displays, monitor_id) ==
    FindFirst({k \in DOMAIN displays : displays[k].id = monitor_id})

\* faulty variant: falls back to the first window
FindWindowOrFirst(windows, window_id) ==
    LET i == FindFirst({k \in DOMAIN windows : windows[k].id = window_id})
    IN  IF i # 0 THEN i ELSE IF windows # <<>> THEN 1 ELSE 0

\* index of the window with the id, or 0
FindWindow(windows, window_id) ==
    FindFirst({k \in DOMAIN windows : windows[k].id = window_id})

\* whether the window's origin is within the display's frame
OriginInDisplay(d, window_x, window_y) ==
    /\ window_x >= d.x
    /\ window_y >= d.y
    /\ window_x < d.x + F(d.w)
    /\ window_y < d.y + F(d.h)

\* faulty variant: no fallback to the first display
FindOwningDisplayNoFallback(displays, window_x, window_y) ==
    FindFirst({k \in DOMAIN displays : OriginInDisplay(displays[k], window_x, window_y)})

\* index of the display that contains the window, else of the first, or 0
FindOwningDisplay(displays, window_x, window_y) ==
    LET i == FindFirst({k \in DOMAIN displays : OriginInDisplay(displays[k], window_x, window_y)})
    IN  IF i # 0 THEN i ELSE IF displays # <<>> THEN 1 ELSE 0

\* faulty variant: width and height exchanged
MonitorCfgSwapped(width, height) ==
    [width |-> height, height |-> width, shows_cursor |-> TRUE, scales_to_fit |-> TRUE]

\* the stream configuration of a monitor capture
MonitorCfg(width, height) ==
    [width |-> width, height |-> height, shows_cursor |-> TRUE, scales_to_fit |-> TRUE]

\* the stream configuration of a window capture: the display's resolution
WindowCfg(d) ==
    [width |-> d.w, height |-> d.h, shows_cursor |-> FALSE, scales_to_fit |-> FALSE]

\* faulty variant: the origin is not clamped to the image
CropRectUnclampedOrigin(frame, d, image_width, image_height) ==
    LET crop_x == AsU32(frame.x - d.x)
        crop_y == AsU32(frame.y - d.y)
    IN  [x |-> crop_x, y |-> crop_y,
         width |-> Min(AsU32(frame.w), saturating_sub(image_width, crop_x)),
         height |-> Min(AsU32(frame.h), saturating_sub(image_height, crop_y))]

\* faulty variant: the extent is not reduced by the clamped origin
CropRectFullExtent(frame, d, image_width, image_height) ==
    LET crop_x == Min(AsU32(frame.x - d.x), saturating_sub(image_width, 1))
        crop_y == Min(AsU32(frame.y - d.y), saturating_sub(image_height, 1))
    IN  [x |-> crop_x, y |-> crop_y,
         width |-> Min(AsU32(frame.w), image_width),
         height |-> Min(AsU32(frame.h), image_height)]

\* the crop rectangle relative to the display origin, clamped to the image
CropRect(frame, d, image_width, image_height) ==
    LET crop_x == Min(AsU32(frame.x - d.x), saturating_sub(image_width, 1))
        crop_y == Min(AsU32(frame.y - d.y), saturating_sub(image_height, 1))
    IN  [x |-> crop_x, y |-> crop_y,
         width |-> Min(AsU32(frame.w), saturating_sub(image_width, crop_x)),
         height |-> Min(AsU32(frame.h), saturating_sub(image_height, crop_y))]

\* image::imageops::crop_imm(..).to_image(): the sub-image, clamped by crop_dimms
crop_imm(image, x0, y0, width0, height0) ==
    LET x == Min(x0, image.width)
        y == Min(y0, image.height)
        height == Min(height0, image.height - y)
        width == Min(width0, image.width - x)
    IN  [width |-> width, height |-> height,
         data |-> [k \in 1..(width * height * 4) |->
                    LET p == (k - 1) \div 4
                        row == y + (p \div width)
                        col == x + (p % width)
                    IN  image.data[(row * image.width + col) * 4 + ((k - 1) % 4) + 1]]]

----------------------------------------------------------------------------
(* Inputs of the enumeration specification: what the OS may report *)

DisplayIds == 1..MaxDisplays
WindowIds == 1..MaxWindows

\* lists whose entries have pairwise distinct ids (ids identify surfaces)
DistinctIds(s) == \A i, j \in DOMAIN s : i # j => s[i].id # s[j].id

EnumDisplayFrames ==
    { [x |-> 0, y |-> 0, w |-> 2560, h |-> 1440],
      [x |-> F(2560), y |-> 0, w |-> 1920, h |-> 1080],
      [x |-> F(-1920), y |-> F(360), w |-> 1920, h |-> 1080],
      [x |-> 0, y |-> 0, w |-> 1920, h |-> 1080],
      [x |-> 1, y |-> 0, w |-> 1920, h |-> 1080] }

WithId(S, ids) ==
    {[f \in DOMAIN r \cup {"id"} |-> IF f = "id" THEN i ELSE r[f]] : r \in S, i \in ids}

EnumDisplayLists ==
    {s \in SeqsUpTo(WithId(EnumDisplayFrames, DisplayIds), MaxDisplays) : DistinctIds(s)}

EnumWindowKinds ==
    { [title |-> Some("Inbox"), app |-> Some([name |-> "Mail", pid |-> 42]),
       x |-> F(100), y |-> F(200), w |-> F(800), h |-> F(600), on_screen |-> TRUE],
      [title |-> None, app |-> None,
       x |-> -101, y |-> F(20), w |-> F(10), h |-> F(10), on_screen |-> FALSE],
      [title |-> Some(""), app |-> Some([name |-> "", pid |-> 42]),
       x |-> 0, y |-> 0, w |-> 19, h |-> F(800), on_screen |-> TRUE],
      [title |-> Some("Dock"), app |-> Some([name |-> "Dock", pid |-> -1]),
       x |-> 0, y |-> F(1400), w |-> F(800), h |-> F(9), on_screen |-> TRUE],
      [title |-> None, app |-> None,
       x |-> F(7), y |-> F(7), w |-> F(5), h |-> F(5), on_screen |-> FALSE],
      [title |-> Some("Inbox"), app |-> Some([name |-> "Mail", pid |-> 42]),
       x |-> F(2600), y |-> F(-30), w |-> 21, h |-> F(10), on_screen |-> FALSE],
      [title |-> Some("Untitled"), app |-> Some([name |-> "", pid |-> 42]),
       x |-> F(40), y |-> F(40), w |-> F(640), h |-> F(480), on_screen |-> TRUE],
      [title |-> None, app |-> Some([name |-> "Dock", pid |-> -1]),
       x |-> 0, y |-> F(1300), w |-> F(2560), h |-> F(140), on_screen |-> TRUE] }

EnumWindowLists ==
    {s \in SeqsUpTo(WithId(EnumWindowKinds, WindowIds), MaxWindows) : DistinctIds(s)}

CgEntries ==
    { None,
      Some([name |-> "", title |-> "", pid |-> -1]),
      Some([name |-> "Finder", title |-> "", pid |-> -1]),
      Some([name |-> "Finder", title |-> "Desktop", pid |-> 77]) }

NoCgWindows == [i \in WindowIds |-> None]

----------------------------------------------------------------------------
(* Calls of the blocking entry points *)

Calls == 1..MaxCalls

EntryPoints == {"get_shareable_content", "capture_window_sync", "capture_monitor_sync"}

\* no call has reached the dispatch yet and RUNTIME has not been touched
RuntimeUntouched ==
    /\ callPc = [c \in Calls |-> "ready"]
    /\ onWorker = [c \in Calls |-> FALSE]
    /\ spawned = [c \in Calls |-> 0]
    /\ joined = [c \in Calls |-> 0]
    /\ rt = [c \in Calls |-> 0]
    /\ outcome = [c \in Calls |-> None]
    /\ runtime = "uninit"
    /\ builds = 0
    /\ entered = {}

\* no Window is queried
NoQuery ==
    /\ queried = None
    /\ minimizedRes = None
    /\ focusedRes = None
    /\ onScreenRes = None

\* the specifications of enumeration and of one capture follow the data of
\* a call, not its threads
NoCalls ==
    /\ entry = [c \in Calls |-> "get_shareable_content"]
    /\ inContext = [c \in Calls |-> FALSE]
    /\ RuntimeUntouched
    /\ NoQuery

----------------------------------------------------------------------------
(* Enumeration specification: Monitor::all and Window::all applied to what *)
(* the OS reports                                                          *)

NoCounts == [content |-> 0, frame |-> 0, lock |-> 0, unlock |-> 0, pixels |-> 0]

\* no capture call
NoCapture ==
    /\ window_frame = None
    /\ display = None
    /\ cfg = None
    /\ frameError = NoError
    /\ image_buf = None
    /\ lockResult = "none"
    /\ locked = FALSE
    /\ extracted = None
    /\ counts = NoCounts
    /\ crop = None
    /\ result = None

InitEnum ==
    /\ NoCalls
    /\ self = None
    /\ pc = "idle"
    /\ NoCapture
    /\ monitorsRes = None
    /\ primaryRes = None
    /\ windowsRes = None
    /\ \/ /\ osError \in OsErrors
          /\ osDisplays = <<>>
          /\ osWindows = <<>>
          /\ cgWindows = NoCgWindows
       \/ /\ osError = NoError
          /\ osDisplays \in EnumDisplayLists
          /\ osWindows = <<>>
          /\ cgWindows = NoCgWindows
       \/ /\ osError = NoError
          /\ osDisplays \in {s \in EnumDisplayLists :
                                Len(s) = 1 /\ s[1].id = 1 /\ IsAtOrigin(s[1]) /\ s[1].w = 2560}
          /\ osWindows \in EnumWindowLists
          /\ cgWindows \in [WindowIds -> CgEntries]

CallMonitorAll ==
    /\ monitorsRes = None
    /\ monitorsRes' = Some(MonitorAll(osError, osDisplays, osWindows))
    /\ UNCHANGED <<osError, osDisplays, osWindows, cgWindows, windowsRes, primaryRes,
                   captureVars, runtimeVars, queryVars>>

CallWindowAll ==
    /\ windowsRes = None
    /\ windowsRes' = Some(WindowAll(osError, osDisplays, osWindows, cgWindows))
    /\ UNCHANGED <<osError, osDisplays, osWindows, cgWindows, monitorsRes, primaryRes,
                   captureVars, runtimeVars, queryVars>>

NextEnum == CallMonitorAll \/ CallWindowAll

SpecEnum == InitEnum /\ [][NextEnum]_vars

----------------------------------------------------------------------------
(* Inputs of the capture specification *)

\* lists in the order of their ids
IncreasingIds(s) == \A i, j \in DOMAIN s : i < j => s[i].id < s[j].id

CapDisplayFrames ==
    { [x |-> 0, y |-> 0, w |-> 2, h |-> 2],
      [x |-> F(2), y |-> 0, w |-> 2, h |-> 1],
      [x |-> F(-2), y |-> F(1), w |-> 0, h |-> 2] }

CapDisplayLists ==
    {s \in SeqsUpTo(WithId(CapDisplayFrames, DisplayIds), MaxDisplays) : IncreasingIds(s)}

CapWindowFrames ==
    { [x |-> 1, y |-> 1, w |-> F(1), h |-> F(1)],
      [x |-> F(3), y |-> 0, w |-> F(12), h |-> 21],
      [x |-> F(-1), y |-> F(-1), w |-> F(12), h |-> F(10)],
      [x |-> F(5), y |-> F(3), w |-> F(1), h |-> F(1)] }

CapWindowKinds ==
    {[title |-> None, app |-> None, x |-> f.x, y |-> f.y, w |-> f.w, h |-> f.h,
      on_screen |-> TRUE] : f \in CapWindowFrames}

CapWindowLists ==
    {s \in SeqsUpTo(WithId(CapWindowKinds, WindowIds), MaxWindows) : IncreasingIds(s)}

\* Monitor::capture_image passes self.display_id, self.width, self.height;
\* self is a Monitor of some earlier Monitor::all
MonitorSelves ==
    {[kind |-> "monitor", id |-> m.display_id, width |-> m.width, height |-> m.height] :
        m \in UNION {Range(MonitorAll(NoError, ds, <<>>).val) : ds \in CapDisplayLists \ {<<>>}}}

\* Window::capture_image passes self.window_id, self.width, self.height;
\* self is a Window of some earlier Window::all
WindowSelves ==
    {[kind |-> "window", id |-> w.window_id, width |-> w.width, height |-> w.height] :
        w \in UNION {Range(WindowAll(NoError, <<>>, ws, NoCgWindows).val) :
                        ws \in {l \in CapWindowLists : WindowAll(NoError, <<>>, l, NoCgWindows).ok}}}

\* the buffers the service may deliver for a configuration: of the requested
\* size, non-planar or planar, rows packed, padded or too short, base address
\* null or not
DeliveredBuffers(c) ==
    LET packed == c.width * 4
        Buf(plane_count, bpr, base_null, plane_bpr, plane_base_null) ==
            [width |-> c.width, height |-> c.height, plane_count |-> plane_count,
             bytes_per_row |-> bpr, base_null |-> base_null,
             plane_bytes_per_row |-> plane_bpr, plane_base_null |-> plane_base_null]
    IN  { Buf(0, packed, FALSE, 0, TRUE),
          Buf(0, packed + 4, FALSE, 0, TRUE),
          Buf(1, packed + 8, FALSE, packed + 4, FALSE),
          Buf(0, saturating_sub(packed, 4), FALSE, 0, TRUE),
          Buf(0, packed, TRUE, 0, TRUE),
          Buf(1, packed, FALSE, packed, TRUE) }

----------------------------------------------------------------------------
(* Capture specification: one capture_image call, step by step *)

Init ==
    /\ NoCalls
    /\ monitorsRes = None
    /\ primaryRes = None
    /\ windowsRes = None
    /\ cgWindows = NoCgWindows
    /\ pc = "start"
    /\ NoCapture
    /\ \/ /\ osError \in OsErrors
          /\ osDisplays = <<>>
          /\ osWindows = <<>>
          /\ self \in {Some(v) : v \in MonitorSelves \cup WindowSelves}
       \/ /\ osError = NoError
          /\ osDisplays \in CapDisplayLists
          /\ osWindows = <<>>
          /\ self \in {Some(v) : v \in MonitorSelves}
       \/ /\ osError = NoError
          /\ osDisplays \in CapDisplayLists
          /\ osWindows \in CapWindowLists
          /\ self \in {Some(v) : v \in WindowSelves}

Count(field) == [counts EXCEPT ![field] = @ + 1]

\* capture_monitor_sync / capture_window_sync: the async function starts and
\* awaits ShareableContent::current().  Whether block_on runs on the calling
\* thread or on a spawned one does not change the steps below; the threads
\* are those of the runtime specification.
StartCapture ==
    /\ pc = "start"
    /\ pc' = "await_content"
    /\ counts' = Count("content")
    /\ UNCHANGED <<queryVars, runtimeVars, enumVars, frameError, self, window_frame, display, cfg, image_buf, lockResult,
                   locked, extracted, crop, result>>

Return(r) ==
    /\ result' = Some(r)
    /\ pc' = "done"

\* capture_monitor_async after the content query: find the display, build
\* filter and configuration, request the frame
MonitorContentReady ==
    /\ pc = "await_content"
    /\ self[1].kind = "monitor"
    /\ IF osError # NoError
       THEN /\ Return(Err(capture_failed("Failed to get shareable content", osError)))
            /\ UNCHANGED <<display, cfg, counts>>
       ELSE LET i == FindDisplay(osDisplays, self[1].id)
            IN  IF i = 0
                THEN /\ Return(Err(monitor_not_found(self[1].id)))
                     /\ UNCHANGED <<display, cfg, counts>>
                ELSE /\ display' = Some(osDisplays[i])
                     /\ cfg' = Some(MonitorCfg(self[1].width, self[1].height))
                     /\ counts' = Count("frame")
                     /\ pc' = "await_frame"
                     /\ UNCHANGED result
    /\ UNCHANGED <<queryVars, runtimeVars, enumVars, frameError, self, window_frame, image_buf, lockResult, locked,
                   extracted, crop>>

\* capture_window_async after the content query: find the window and the
\* display that contains it, build filter and configuration, request the frame
WindowContentReady ==
    /\ pc = "await_content"
    /\ self[1].kind = "window"
    /\ IF osError # NoError
       THEN /\ Return(Err(capture_failed("Failed to get shareable content", osError)))
            /\ UNCHANGED <<window_frame, display, cfg, counts>>
       ELSE LET i == FindWindow(osWindows, self[1].id)
            IN  IF i = 0
                THEN /\ Return(Err(window_not_found(self[1].id)))
                     /\ UNCHANGED <<window_frame, display, cfg, counts>>
                ELSE LET w == osWindows[i]
                         frame == [x |-> w.x, y |-> w.y, w |-> w.w, h |-> w.h]
                         j == FindOwningDisplay(osDisplays, frame.x, frame.y)
                     IN  /\ window_frame' = Some(frame)
                         /\ IF j = 0
                            THEN /\ Return(Err(capture_failed("No display found for window", NoError)))
                                 /\ UNCHANGED <<display, cfg, counts>>
                            ELSE /\ display' = Some(osDisplays[j])
                                 /\ cfg' = Some(WindowCfg(osDisplays[j]))
                                 /\ counts' = Count("frame")
                                 /\ pc' = "await_frame"
                                 /\ UNCHANGED result
    /\ UNCHANGED <<queryVars, runtimeVars, enumVars, frameError, self, image_buf, lockResult, locked, extracted, crop>>

\* faulty variant: a failed screenshot request is issued again
FrameFailedRetry ==
    /\ pc = "await_frame"
    /\ counts.frame < 2
    /\ \E e \in OsErrors : frameError' = e
    /\ counts' = Count("frame")
    /\ UNCHANGED <<queryVars, runtimeVars, enumVars, self, pc, window_frame, display, cfg,
                   image_buf, lockResult, locked, extracted, crop, result>>

\* the screenshot request fails
FrameFailed ==
    /\ pc = "await_frame"
    /\ \E e \in OsErrors :
          /\ frameError' = e
          /\ Return(Err(capture_failed("Screenshot capture failed", e)))
    /\ UNCHANGED <<queryVars, runtimeVars, enumVars, self, window_frame, display, cfg, image_buf, lockResult,
                   locked, extracted, counts, crop>>

\* the sample delivered carries no image buffer
FrameWithoutImage ==
    /\ pc = "await_frame"
    /\ Return(Err(capture_failed("Failed to get image buffer from sample", NoError)))
    /\ UNCHANGED <<queryVars, runtimeVars, enumVars, frameError, self, window_frame, display, cfg, image_buf, lockResult,
                   locked, extracted, counts, crop>>

\* the sample delivered carries a pixel buffer; image_buf_to_rgba is entered
FrameReady ==
    /\ pc = "await_frame"
    /\ \E b \in DeliveredBuffers(cfg[1]) : image_buf' = Some(b)
    /\ pc' = "extract"
    /\ UNCHANGED <<queryVars, runtimeVars, enumVars, frameError, self, window_frame, display, cfg, lockResult, locked,
                   extracted, counts, crop, result>>

\* image_buf_to_rgba: lock_base_addr succeeds
LockOk ==
    /\ pc = "extract"
    /\ counts' = Count("lock")
    /\ lockResult' = "ok"
    /\ locked' = TRUE
    /\ pc' = "locked"
    /\ UNCHANGED <<queryVars, runtimeVars, enumVars, frameError, self, window_frame, display, cfg, image_buf, extracted,
                   crop, result>>

\* faulty variant: a failed lock is tried again
LockFailedRetry ==
    /\ pc = "extract"
    /\ counts.lock < 2
    /\ counts' = Count("lock")
    /\ lockResult' = "err"
    /\ UNCHANGED <<queryVars, runtimeVars, enumVars, frameError, self, pc, window_frame, display, cfg, image_buf, locked,
                   extracted, crop, result>>

\* image_buf_to_rgba: lock_base_addr fails; the error is returned and the
\* caller passes it on
LockFailed ==
    /\ pc = "extract"
    /\ counts' = Count("lock")
    /\ lockResult' = "err"
    /\ Return(Err(capture_failed("Failed to lock pixel buffer", NoError)))
    /\ UNCHANGED <<queryVars, runtimeVars, enumVars, frameError, self, window_frame, display, cfg, image_buf, locked,
                   extracted, crop>>

\* what the caller does with the extractor's result: capture_monitor_async
\* returns it, capture_window_async passes an error on and crops an image
Finish(r) ==
    IF self[1].kind = "monitor" \/ ~r.ok
    THEN /\ Return(r)
         /\ UNCHANGED crop
    ELSE LET full_image == r.val
             c == CropRect(window_frame[1], display[1], full_image.width, full_image.height)
         IN  /\ crop' = Some([x |-> c.x, y |-> c.y, width |-> c.width, height |-> c.height,
                               image_width |-> full_image.width,
                               image_height |-> full_image.height])
             /\ Return(Ok(crop_imm(full_image, c.x, c.y, c.width, c.height)))

\* faulty variant: a null base address returns at once
ConvertReturnOnNull ==
    /\ pc = "locked"
    /\ extracted' = Some(ConvertBuffer(image_buf[1]))
    /\ IF BaseIsNull(image_buf[1])
       THEN /\ Finish(ConvertBuffer(image_buf[1]))
            /\ UNCHANGED counts
       ELSE /\ counts' = [counts EXCEPT !.pixels =
                            IF extracted'[1].ok THEN Len(extracted'[1].val.data) \div 4 ELSE @]
            /\ pc' = "unlock"
            /\ UNCHANGED <<crop, result>>
    /\ UNCHANGED <<queryVars, runtimeVars, enumVars, frameError, self, window_frame, display, cfg, image_buf, lockResult, locked>>

\* image_buf_to_rgba: layout, null check, pixel walk, image construction
Convert ==
    /\ pc = "locked"
    /\ extracted' = Some(ConvertBuffer(image_buf[1]))
    /\ counts' = [counts EXCEPT !.pixels =
                    IF BaseIsNull(image_buf[1]) THEN @
                    ELSE Len(ConvertFrom(0, image_buf[1].width, image_buf[1].height,
                                         BytesPerRow(image_buf[1]),
                                         BytesPerRow(image_buf[1]) * image_buf[1].height)) \div 4]
    /\ pc' = "unlock"
    /\ UNCHANGED <<queryVars, runtimeVars, enumVars, frameError, self, window_frame, display, cfg, image_buf, lockResult,
                   locked, crop, result>>

\* faulty variant: a failed unlock is returned as the error
UnlockEscalates ==
    /\ pc = "unlock"
    /\ counts' = Count("unlock")
    /\ \E unlock_ok \in BOOLEAN :
          /\ locked' = ~unlock_ok
          /\ IF unlock_ok
             THEN Finish(extracted[1])
             ELSE Finish(Err(capture_failed("Failed to unlock pixel buffer", NoError)))
    /\ UNCHANGED <<queryVars, runtimeVars, enumVars, frameError, self, window_frame, display,
                   cfg, image_buf, lockResult, extracted>>

\* image_buf_to_rgba: the unlock, whose failure is only logged, and the
\* return of `result` to the caller
Unlock ==
    /\ pc = "unlock"
    /\ counts' = Count("unlock")
    /\ \E unlock_ok \in BOOLEAN : locked' = ~unlock_ok
    /\ Finish(extracted[1])
    /\ UNCHANGED <<queryVars, runtimeVars, enumVars, frameError, self, window_frame, display, cfg, image_buf, lockResult,
                   extracted>>

Next ==
    \/ StartCapture
    \/ MonitorContentReady
    \/ WindowContentReady
    \/ FrameFailed
    \/ FrameWithoutImage
    \/ FrameReady
    \/ LockOk
    \/ LockFailed
    \/ Convert
    \/ Unlock

Spec == Init /\ [][Next]_vars

----------------------------------------------------------------------------
(* Runtime specification: concurrent calls of the blocking entry points,   *)
(* the lazily built shared runtime and the worker threads.  The future a   *)
(* call waits for takes the steps of the capture specification; here it is *)
(* the OS request that completes, with success or with an error.           *)

InitRuntime ==
    /\ osError = NoError
    /\ osDisplays = <<>>
    /\ osWindows = <<>>
    /\ cgWindows = NoCgWindows
    /\ monitorsRes = None
    /\ primaryRes = None
    /\ windowsRes = None
    /\ self = None
    /\ pc = "idle"
    /\ NoCapture
    /\ entry \in [Calls -> EntryPoints]
    /\ inContext \in [Calls -> BOOLEAN]
    /\ RuntimeUntouched
    /\ NoQuery

\* whether the thread that performs the blocking wait of call c is inside a
\* tokio context: a thread made by std::thread::spawn is not
ThreadInContext(c) == ~onWorker[c] /\ inContext[c]

\* faulty variant: the wait is always made on the calling thread
DispatchDirect(c) ==
    /\ callPc[c] = "ready"
    /\ callPc' = [callPc EXCEPT ![c] = "block_on"]
    /\ UNCHANGED <<enumVars, captureVars, queryVars, entry, inContext, onWorker, spawned, joined, rt,
                   outcome, runtime, builds, entered>>

\* the entry point tests Handle::try_current(): inside a context run_in_thread
\* spawns a worker for the wait, otherwise the calling thread goes on
Dispatch(c) ==
    /\ callPc[c] = "ready"
    /\ IF inContext[c]
       THEN /\ onWorker' = [onWorker EXCEPT ![c] = TRUE]
            /\ spawned' = [spawned EXCEPT ![c] = @ + 1]
       ELSE UNCHANGED <<onWorker, spawned>>
    /\ callPc' = [callPc EXCEPT ![c] = "block_on"]
    /\ UNCHANGED <<enumVars, captureVars, queryVars, entry, inContext, joined, rt, outcome, runtime,
                   builds, entered>>

\* faulty variant: a cell without synchronisation, every thread that finds
\* no runtime builds one
RuntimeDerefRacy(c) ==
    /\ callPc[c] = "block_on"
    /\ IF runtime # "built"
       THEN /\ runtime' = "building"
            /\ callPc' = [callPc EXCEPT ![c] = "building"]
            /\ UNCHANGED rt
       ELSE /\ rt' = [rt EXCEPT ![c] = builds]
            /\ callPc' = [callPc EXCEPT ![c] = "deref_done"]
            /\ UNCHANGED runtime
    /\ UNCHANGED <<enumVars, captureVars, queryVars, entry, inContext, onWorker, spawned, joined,
                   outcome, builds, entered>>

\* block_on dereferences RUNTIME: the first thread starts the initialiser,
\* a thread that arrives while it runs waits, later threads get the runtime
RuntimeDeref(c) ==
    /\ callPc[c] = "block_on"
    /\ runtime # "building"
    /\ IF runtime = "uninit"
       THEN /\ runtime' = "building"
            /\ callPc' = [callPc EXCEPT ![c] = "building"]
            /\ UNCHANGED rt
       ELSE /\ rt' = [rt EXCEPT ![c] = builds]
            /\ callPc' = [callPc EXCEPT ![c] = "deref_done"]
            /\ UNCHANGED runtime
    /\ UNCHANGED <<enumVars, captureVars, queryVars, entry, inContext, onWorker, spawned, joined,
                   outcome, builds, entered>>

\* the initialiser of RUNTIME has built the runtime and the cell holds it
RuntimeBuilt(c) ==
    /\ callPc[c] = "building"
    /\ runtime' = "built"
    /\ builds' = builds + 1
    /\ rt' = [rt EXCEPT ![c] = builds + 1]
    /\ callPc' = [callPc EXCEPT ![c] = "deref_done"]
    /\ UNCHANGED <<enumVars, captureVars, queryVars, entry, inContext, onWorker, spawned, joined,
                   outcome, entered>>

\* Runtime::block_on is entered; tokio panics when the thread is inside a
\* runtime context
EnterBlockOn(c) ==
    /\ callPc[c] = "deref_done"
    /\ entered' = entered \cup
                    {[call |-> c,
                      thread |-> IF onWorker[c] THEN "worker" ELSE "caller",
                      in_context |-> ThreadInContext(c),
                      runtime |-> rt[c]]}
    /\ callPc' = [callPc EXCEPT ![c] = IF ThreadInContext(c) THEN "panicked" ELSE "waiting"]
    /\ UNCHANGED <<enumVars, captureVars, queryVars, entry, inContext, onWorker, spawned, joined, rt,
                   outcome, runtime, builds>>

\* the OS completes the shareable-content query the future awaits first.
\* get_shareable_content then resolves; a capture resolves on an error or on
\* a target that is absent, and otherwise requests the frame
OsCompletes(c) ==
    /\ callPc[c] = "waiting"
    /\ \E r \in {"ok", "err"} :
          IF r = "ok" /\ entry[c] # "get_shareable_content"
          THEN \/ /\ callPc' = [callPc EXCEPT ![c] = "waiting_frame"]
                  /\ UNCHANGED outcome
               \/ /\ outcome' = [outcome EXCEPT ![c] = Some("err")]
                  /\ callPc' = [callPc EXCEPT ![c] = "finished"]
          ELSE /\ outcome' = [outcome EXCEPT ![c] = Some(r)]
               /\ callPc' = [callPc EXCEPT ![c] = "finished"]
    /\ UNCHANGED <<enumVars, captureVars, queryVars, entry, inContext, onWorker, spawned, joined, rt,
                   runtime, builds, entered>>

\* the OS completes the frame request of a capture; the future resolves with
\* the image or with an error, and block_on returns
FrameCompletes(c) ==
    /\ callPc[c] = "waiting_frame"
    /\ \E r \in {"ok", "err"} : outcome' = [outcome EXCEPT ![c] = Some(r)]
    /\ callPc' = [callPc EXCEPT ![c] = "finished"]
    /\ UNCHANGED <<enumVars, captureVars, queryVars, entry, inContext, onWorker, spawned, joined, rt,
                   runtime, builds, entered>>

\* faulty variant: the result of a worker never reaches the caller
ReturnToCallerDirectOnly(c) ==
    /\ callPc[c] = "finished"
    /\ ~onWorker[c]
    /\ callPc' = [callPc EXCEPT ![c] = "returned"]
    /\ UNCHANGED <<enumVars, captureVars, queryVars, entry, inContext, onWorker, spawned, joined,
                   rt, outcome, runtime, builds, entered>>

\* the entry point returns: directly, or from the join of the worker
ReturnToCaller(c) ==
    /\ callPc[c] = "finished"
    /\ IF onWorker[c]
       THEN joined' = [joined EXCEPT ![c] = @ + 1]
       ELSE UNCHANGED joined
    /\ callPc' = [callPc EXCEPT ![c] = "returned"]
    /\ UNCHANGED <<enumVars, captureVars, queryVars, entry, inContext, onWorker, spawned, rt, outcome,
                   runtime, builds, entered>>

NextRuntime ==
    \E c \in Calls :
        \/ Dispatch(c)
        \/ RuntimeDeref(c)
        \/ RuntimeBuilt(c)
        \/ EnterBlockOn(c)
        \/ OsCompletes(c)
        \/ FrameCompletes(c)
        \/ ReturnToCaller(c)

SpecRuntime == InitRuntime /\ [][NextRuntime]_vars

\* a step of the thread that performs the blocking wait of call c (at most
\* one of these is enabled at a time)
ThreadStep(c) ==
    \/ Dispatch(c)
    \/ RuntimeDeref(c)
    \/ RuntimeBuilt(c)
    \/ EnterBlockOn(c)
    \/ ReturnToCaller(c)

\* the OS completes a request of call c
OsStep(c) == OsCompletes(c) \/ FrameCompletes(c)

\* fair scheduling of the threads, and an OS that completes every request it
\* is given
FairRuntime ==
    \A c \in Calls : WF_vars(ThreadStep(c)) /\ WF_vars(OsStep(c))

CaptureEntryPoints == {"capture_window_sync", "capture_monitor_sync"}

\* every call is a capture
InitCaptureCalls ==
    /\ InitRuntime
    /\ \A c \in Calls : entry[c] \in CaptureEntryPoints

SpecRuntimeFair == InitCaptureCalls /\ [][NextRuntime]_vars /\ FairRuntime

----------------------------------------------------------------------------
(* Window specification: the state queries of a Window *)

\* faulty variant: a stub, as is_maximized
is_minimized_stub(w) == Ok(FALSE)

\* Window::is_minimized
is_minimized(w) == Ok(~w.is_on_screen)

\* Window::is_focused
is_focused(w) == Ok(w.is_on_screen)

\* Window::is_on_screen
is_on_screen(w) == w.is_on_screen

\* the Windows of the unit tests
TestWindows ==
    { [window_id |-> 123, app_name |-> "TestApp", title |-> "Test Window", pid |-> 456,
       x |-> 100, y |-> 200, width |-> 800, height |-> 600, is_on_screen |-> TRUE],
      [window_id |-> 1, app_name |-> "App", title |-> "Title", pid |-> 1,
       x |-> 0, y |-> 0, width |-> 100, height |-> 100, is_on_screen |-> FALSE] }

\* the Windows Window::all returns for one reported window
EnumeratedWindows ==
    UNION {Range(WindowAll(NoError, <<>>, <<w>>, cg).val) :
            w \in {v \in WithId(EnumWindowKinds, WindowIds) :
                      WindowAll(NoError, <<>>, <<v>>, NoCgWindows).ok},
            cg \in {[NoCgWindows EXCEPT ![i] = e] : i \in WindowIds, e \in CgEntries}}

InitWindow ==
    /\ osError = NoError
    /\ osDisplays = <<>>
    /\ osWindows = <<>>
    /\ cgWindows = NoCgWindows
    /\ monitorsRes = None
    /\ primaryRes = None
    /\ windowsRes = None
    /\ self = None
    /\ pc = "idle"
    /\ NoCapture
    /\ entry = [c \in Calls |-> "get_shareable_content"]
    /\ inContext = [c \in Calls |-> FALSE]
    /\ RuntimeUntouched
    /\ queried \in {Some(w) : w \in EnumeratedWindows \cup TestWindows}
    /\ minimizedRes = None
    /\ focusedRes = None
    /\ onScreenRes = None

CallIsMinimized ==
    /\ minimizedRes = None
    /\ minimizedRes' = Some(is_minimized(queried[1]))
    /\ UNCHANGED <<enumVars, captureVars, runtimeVars, queried, focusedRes, onScreenRes>>

CallIsFocused ==
    /\ focusedRes = None
    /\ focusedRes' = Some(is_focused(queried[1]))
    /\ UNCHANGED <<enumVars, captureVars, runtimeVars, queried, minimizedRes, onScreenRes>>

CallIsOnScreen ==
    /\ onScreenRes = None
    /\ onScreenRes' = Some(is_on_screen(queried[1]))
    /\ UNCHANGED <<enumVars, captureVars, runtimeVars, queried, minimizedRes, focusedRes>>

NextWindow == CallIsMinimized \/ CallIsFocused \/ CallIsOnScreen

SpecWindow == InitWindow /\ [][NextWindow]_vars

----------------------------------------------------------------------------
(* Monitor specification: Monitor::primary next to Monitor::all, applied   *)
(* to what the OS reports about displays                                   *)

InitMonitor ==
    /\ NoCalls
    /\ self = None
    /\ pc = "idle"
    /\ NoCapture
    /\ monitorsRes = None
    /\ windowsRes = None
    /\ primaryRes = None
    /\ osWindows = <<>>
    /\ cgWindows = NoCgWindows
    /\ \/ /\ osError \in OsErrors
          /\ osDisplays = <<>>
       \/ /\ osError = NoError
          /\ osDisplays \in EnumDisplayLists

CallMonitorPrimary ==
    /\ primaryRes = None
    /\ primaryRes' = Some(MonitorPrimary(osError, osDisplays, osWindows))
    /\ UNCHANGED <<osError, osDisplays, osWindows, cgWindows, monitorsRes, windowsRes,
                   captureVars, runtimeVars, queryVars>>

NextMonitor == CallMonitorPrimary \/ CallMonitorAll

SpecMonitor == InitMonitor /\ [][NextMonitor]_vars

----------------------------------------------------------------------------
(* Properties of enumeration (SpecEnum) *)

MonitorsOk == monitorsRes # None /\ monitorsRes[1].ok
MonitorsVal == monitorsRes[1].val
WindowsOk == windowsRes # None /\ windowsRes[1].ok
WindowsVal == windowsRes[1].val

PrimaryIndices(ms) == {i \in DOMAIN ms : ms[i].is_primary}
OriginIndices(ds) == {i \in DOMAIN ds : ds[i].x = 0 /\ ds[i].y = 0}

\* C1: for every non-empty list of displays the service reports, the list
\* Monitor::all returns has exactly one Monitor with is_primary = TRUE,
\* whatever the origins of the displays are.
C1_ExactlyOnePrimary ==
    (monitorsRes # None /\ osError = NoError /\ osDisplays # <<>>) =>
        /\ monitorsRes[1].ok
        /\ Len(MonitorsVal) = Len(osDisplays)
        /\ Cardinality(PrimaryIndices(MonitorsVal)) = 1

\* several displays at (0,0), one primary
C1_Witness ==
    /\ MonitorsOk
    /\ Cardinality(OriginIndices(osDisplays)) >= 2
    /\ Cardinality(PrimaryIndices(MonitorsVal)) = 1

\* the least index of a display at (0,0), else 1
ExpectedPrimaryIndex(ds) ==
    IF OriginIndices(ds) # {}
    THEN CHOOSE i \in OriginIndices(ds) : \A j \in OriginIndices(ds) : i <= j
    ELSE 1

\* C2: Monitor::all marks as primary the first display in enumeration order
\* whose frame origin is exactly (0,0), and the first enumerated display if
\* none has origin (0,0); no other Monitor is marked.
C2_PrimaryIsFirstAtOrigin ==
    MonitorsOk =>
        \A i \in DOMAIN MonitorsVal :
            /\ MonitorsVal[i].display_id = osDisplays[i].id
            /\ MonitorsVal[i].is_primary <=> (i = ExpectedPrimaryIndex(osDisplays))

\* the scenario (0,0) 2560x1440 then (2560,0) 1920x1080
C2_Witness ==
    /\ MonitorsOk
    /\ Len(osDisplays) = 2
    /\ osDisplays[1].x = 0 /\ osDisplays[1].y = 0
    /\ osDisplays[1].w = 2560 /\ osDisplays[1].h = 1440
    /\ osDisplays[2].x = F(2560) /\ osDisplays[2].y = 0
    /\ osDisplays[2].w = 1920 /\ osDisplays[2].h = 1080
    /\ MonitorsVal[1].is_primary
    /\ ~MonitorsVal[2].is_primary

ResultIds(ws) == {ws[i].window_id : i \in DOMAIN ws}
FrameTooSmall(w) == w.w < F(MinWindowSize) \/ w.h < F(MinWindowSize)

\* C3: every Window in a list Window::all returns has width >= 10 and
\* height >= 10; a reported window whose frame width or height is below 10
\* is never in the result, and every reported window with both dimensions
\* >= 10 is in it.
C3_NoSmallWindows ==
    WindowsOk =>
        /\ \A i \in DOMAIN WindowsVal :
              WindowsVal[i].width >= 10 /\ WindowsVal[i].height >= 10
        /\ \A j \in DOMAIN osWindows :
              (osWindows[j].id \in ResultIds(WindowsVal)) <=> ~FrameTooSmall(osWindows[j])

\* a 5x5 window was reported and left out, another window was kept
C3_Witness ==
    /\ WindowsOk
    /\ \E j \in DOMAIN osWindows :
          /\ osWindows[j].w = F(5) /\ osWindows[j].h = F(5)
          /\ osWindows[j].id \notin ResultIds(WindowsVal)
    /\ WindowsVal # <<>>

\* C4: enumeration never returns Ok with an empty list.  Window::all returns
\* NoWindows exactly when the service reports zero windows or every reported
\* window is discarded by the 10-pixel filter; Monitor::all returns
\* NoMonitors exactly when the service reports zero displays; in every other
\* case of a successful query the call returns Ok with a non-empty list.
C4_NeverOkEmpty ==
    /\ windowsRes # None =>
          /\ windowsRes[1].ok => WindowsVal # <<>>
          /\ (windowsRes[1] = Err(no_windows)) <=>
                (osError = NoError /\ \A j \in DOMAIN osWindows : FrameTooSmall(osWindows[j]))
          /\ windowsRes[1].ok <=>
                (osError = NoError /\ \E j \in DOMAIN osWindows : ~FrameTooSmall(osWindows[j]))
    /\ monitorsRes # None =>
          /\ monitorsRes[1].ok => MonitorsVal # <<>>
          /\ (monitorsRes[1] = Err(no_monitors)) <=> (osError = NoError /\ osDisplays = <<>>)
          /\ monitorsRes[1].ok <=> (osError = NoError /\ osDisplays # <<>>)

\* windows were reported, all were discarded, the call failed with NoWindows
C4_Witness ==
    /\ windowsRes # None
    /\ osWindows # <<>>
    /\ windowsRes[1] = Err(no_windows)

----------------------------------------------------------------------------
(* Properties of capture (Spec) *)

Done == pc = "done"
IsMonitorCall == self # None /\ self[1].kind = "monitor"
IsWindowCall == self # None /\ self[1].kind = "window"

\* C5: for every live window frame, owning display frame and captured image
\* size, the crop rectangle of a window capture satisfies
\* crop_x + crop_width <= image_width and crop_y + crop_height <= image_height.
C5_CropWithinImage ==
    crop # None =>
        /\ crop[1].x + crop[1].width <= crop[1].image_width
        /\ crop[1].y + crop[1].height <= crop[1].image_height

\* a window whose frame extends past its display was cropped to what is left
C5_Witness ==
    /\ crop # None
    /\ OriginInDisplay(display[1], window_frame[1].x, window_frame[1].y)
    /\ window_frame[1].x + window_frame[1].w > display[1].x + F(display[1].w)
    /\ crop[1].x > 0
    /\ crop[1].width > 0
    /\ crop[1].width < AsU32(window_frame[1].w)

\* offsets of the buffer that are row padding
IsPadding(off, width, stride) == stride > 0 /\ off % stride >= width * 4

\* C6: when the extractor succeeds on a buffer of some width, height and
\* stride, the output bytes of pixel (r, c), at index (r*width + c)*4 .. +3,
\* are the native bytes at r*stride + c*4 + [2, 1, 0, 3], and no padding byte
\* of a row appears in the output.
C6_BgraToRgba ==
    (extracted # None /\ extracted[1].ok) =>
        LET b == image_buf[1]
            img == extracted[1].val
            stride == IF b.plane_count = 0 THEN b.bytes_per_row ELSE b.plane_bytes_per_row
        IN  /\ Len(img.data) = b.width * b.height * 4
            /\ \A r \in 0..(b.height - 1), c \in 0..(b.width - 1) :
                  LET o == (r * b.width + c) * 4
                      src == r * stride + c * 4
                  IN  /\ img.data[o + 1] = NativeByte(src + 2)
                      /\ img.data[o + 2] = NativeByte(src + 1)
                      /\ img.data[o + 3] = NativeByte(src)
                      /\ img.data[o + 4] = NativeByte(src + 3)
            /\ \A k \in DOMAIN img.data, off \in 0..(stride * b.height - 1) :
                  IsPadding(off, b.width, stride) => img.data[k] # NativeByte(off)

\* a padded buffer of several rows and columns was converted
C6_Witness ==
    /\ extracted # None
    /\ extracted[1].ok
    /\ image_buf[1].width >= 2
    /\ image_buf[1].height >= 2
    /\ image_buf[1].plane_count = 0
    /\ image_buf[1].bytes_per_row > image_buf[1].width * 4

\* C7: whenever Monitor::capture_image returns an image, its width and height
\* are the width and height of the Monitor, for every buffer the service may
\* deliver for the request.
C7_MonitorImageSize ==
    (Done /\ IsMonitorCall /\ result[1].ok) =>
        /\ result[1].val.width = self[1].width
        /\ result[1].val.height = self[1].height

\* an image was returned for a Monitor whose size is not the display's now
C7_Witness ==
    /\ Done
    /\ IsMonitorCall
    /\ result[1].ok
    /\ self[1].width # self[1].height
    /\ self[1].width > 0
    /\ display[1].w # self[1].width

TargetAbsent ==
    IF self[1].kind = "monitor"
    THEN \A i \in DOMAIN osDisplays : osDisplays[i].id # self[1].id
    ELSE \A i \in DOMAIN osWindows : osWindows[i].id # self[1].id

\* C8: a capture whose target id is absent from the snapshot fetched at
\* capture time returns WindowNotFound(id) (Window::capture_image) or
\* MonitorNotFound(id) (Monitor::capture_image), and no image: no frame is
\* requested and nothing is extracted.
C8_VanishedTargetNotFound ==
    (self # None /\ osError = NoError /\ TargetAbsent) =>
        /\ pc \in {"start", "await_content", "done"}
        /\ counts.frame = 0
        /\ image_buf = None
        /\ Done =>
              result[1] = Err(IF self[1].kind = "monitor"
                              THEN monitor_not_found(self[1].id)
                              ELSE window_not_found(self[1].id))

\* other windows are live, the window asked for is not, WindowNotFound
C8_Witness ==
    /\ Done
    /\ IsWindowCall
    /\ osError = NoError
    /\ osWindows # <<>>
    /\ TargetAbsent
    /\ result[1] = Err(window_not_found(self[1].id))

\* C9: if the read-only lock on the pixel buffer cannot be acquired, the
\* capture call returns CaptureFailed, no pixel is read or converted and no
\* image produced, and the lock is attempted exactly once.
C9_LockFailureIsFinal ==
    lockResult = "err" =>
        /\ Done
        /\ ~result[1].ok
        /\ result[1].err = capture_failed("Failed to lock pixel buffer", NoError)
        /\ counts.lock = 1
        /\ counts.pixels = 0
        /\ extracted = None
        /\ crop = None

\* a window capture whose lock failed
C9_Witness ==
    /\ lockResult = "err"
    /\ IsWindowCall
    /\ Done
    /\ result[1].err.kind = "CaptureFailed"

\* C10: every successful lock of the pixel buffer is followed by an unlock
\* attempt before the extractor returns, on every exit path (conversion
\* succeeded, base address null, image construction failed).
C10_UnlockOnEveryPath ==
    /\ lockResult = "ok" => (pc \in {"locked", "unlock"} \/ counts.unlock = 1)
    /\ (Done /\ locked) => counts.unlock = 1
    /\ locked => lockResult = "ok"

\* the base address was null, the unlock was attempted, the error returned
C10_Witness ==
    /\ Done
    /\ lockResult = "ok"
    /\ extracted # None
    /\ extracted[1] = Err(capture_failed("Pixel buffer base address is null", NoError))
    /\ counts.unlock = 1
    /\ result[1] = extracted[1]

\* an OS description that names the permission problem
MentionsPermission(e) ==
    \/ Contains(e, Chars("permission"))
    \/ Contains(e, Chars("denied"))
    \/ Contains(e, Chars("-3801"))

\* the OS failure a finished capture call met, or NoError
CaptureOsFailure == IF osError # NoError THEN osError ELSE frameError

\* C11: when an OS request made during a capture (the shareable-content
\* query or the frame request) fails, capture_image returns PermissionDenied
\* if the description contains 'permission', 'denied' or '-3801', and
\* CaptureFailed carrying the description otherwise.
C11_CapturePermissionDenied ==
    (Done /\ CaptureOsFailure # NoError) =>
        /\ ~result[1].ok
        /\ IF MentionsPermission(CaptureOsFailure)
           THEN result[1].err = permission_denied
           ELSE /\ result[1].err.kind = "CaptureFailed"
                /\ result[1].err.os = CaptureOsFailure

\* displays whose frame rectangle contains the window's origin point
Containing(ds, f) ==
    {k \in DOMAIN ds : /\ ds[k].x <= f.x /\ f.x < ds[k].x + F(ds[k].w)
                       /\ ds[k].y <= f.y /\ f.y < ds[k].y + F(ds[k].h)}

\* the first display that contains the origin, else the first display
ExpectedOwner(ds, f) ==
    IF Containing(ds, f) = {} THEN ds[1]
    ELSE ds[CHOOSE k \in Containing(ds, f) : \A j \in Containing(ds, f) : k <= j]

NoDisplayError == Err(capture_failed("No display found for window", NoError))

\* C15 as stated: once the window is found in the snapshot, an owning
\* display is selected, the first that contains the window's origin, else the
\* first enumerated, and the selection never yields an error, for every
\* display set of the snapshot.
C15_OwnerNeverFails ==
    window_frame # None =>
        /\ display # None
        /\ osDisplays # <<>> => display[1] = ExpectedOwner(osDisplays, window_frame[1])
        /\ result # Some(NoDisplayError)

\* C15, amended: for every non-empty display set the owning display is the
\* first display in enumeration order whose frame contains the window's
\* origin, else the first enumerated display, and the selection yields no
\* error; when the snapshot has no display at all, the capture returns
\* CaptureFailed "No display found for window" and requests no frame.
C15_OwningDisplay ==
    window_frame # None =>
        IF osDisplays = <<>>
        THEN /\ display = None
             /\ Done
             /\ result = Some(NoDisplayError)
             /\ counts.frame = 0
        ELSE /\ display # None
             /\ display[1] = ExpectedOwner(osDisplays, window_frame[1])
             /\ result # Some(NoDisplayError)

\* two displays, neither contains the window's origin: the first one owns it
\* and the frame was requested
C15_Witness ==
    /\ window_frame # None
    /\ Len(osDisplays) = 2
    /\ Containing(osDisplays, window_frame[1]) = {}
    /\ display = Some(osDisplays[1])
    /\ counts.frame = 1

\* the stride the extractor reads for buffer b
StrideOf(b) == IF b.plane_count = 0 THEN b.bytes_per_row ELSE b.plane_bytes_per_row

\* the base address the extractor reads for buffer b is null
NullBase(b) == IF b.plane_count = 0 THEN b.base_null ELSE b.plane_base_null

\* some pixel of the walk does not lie within stride*height bytes
AnyPixelSkipped(b) ==
    \E r \in 0..(b.height - 1), c \in 0..(b.width - 1) :
        r * StrideOf(b) + c * 4 + 3 >= StrideOf(b) * b.height

\* C16: after extraction either a complete image or an error is returned,
\* never a partial image: an image only if the base address is non-null and
\* all width*height pixels were converted (output length exactly
\* width*height*4); CaptureFailed if the base address is null or any pixel
\* was skipped by the bounds check.
C16_CompleteImageOrError ==
    extracted # None =>
        LET b == image_buf[1]
            r == extracted[1]
        IN  /\ r.ok <=> (~NullBase(b) /\ ~AnyPixelSkipped(b))
            /\ r.ok =>
                  /\ r.val.width = b.width /\ r.val.height = b.height
                  /\ Len(r.val.data) = b.width * b.height * 4
                  /\ counts.pixels = b.width * b.height
            /\ ~r.ok => r.err.kind = "CaptureFailed"
            /\ Done => (result[1].ok <=> r.ok)

\* rows shorter than the pixels need: some pixels were converted, one was
\* skipped, and the call returned CaptureFailed
C16_Witness ==
    /\ Done
    /\ extracted # None
    /\ ~NullBase(image_buf[1])
    /\ counts.pixels > 0
    /\ counts.pixels < image_buf[1].width * image_buf[1].height
    /\ result[1] = Err(capture_failed("Failed to create image from buffer", NoError))

\* what the caller of the extractor returns for the extractor's `result` r
ReturnedFor(r) ==
    IF IsMonitorCall \/ ~r.ok THEN r
    ELSE Ok(crop_imm(r.val, crop[1].x, crop[1].y, crop[1].width, crop[1].height))

\* C18: a failure of the unlock attempt never changes what the extractor
\* returns: for the same buffer and the same conversion outcome the result
\* (the image, or the CaptureFailed error) is the same whether the unlock
\* succeeds or fails; an unlock failure turns no successful extraction into
\* an error and replaces no earlier error.
C18_UnlockFailureSwallowed ==
    (Done /\ counts.unlock = 1) =>
        /\ extracted[1] = ConvertBuffer(image_buf[1])
        /\ result[1].ok <=> extracted[1].ok
        /\ result[1] = ReturnedFor(extracted[1])

\* the unlock failed (the buffer stays locked) and the image was returned
C18_Witness ==
    /\ Done
    /\ counts.unlock = 1
    /\ locked
    /\ result[1].ok
    /\ Len(result[1].val.data) > 0

\* requests and lock operations a call has issued when it returns error e
CountsAtFailure(e) ==
    CASE e.msg \in {"Failed to get shareable content", "Window not found",
                    "Monitor not found", "No display found for window"} ->
            [content |-> 1, frame |-> 0, lock |-> 0, unlock |-> 0]
      [] e.msg \in {"Screenshot capture failed", "Failed to get image buffer from sample"} ->
            [content |-> 1, frame |-> 1, lock |-> 0, unlock |-> 0]
      [] e.msg = "Failed to lock pixel buffer" ->
            [content |-> 1, frame |-> 1, lock |-> 1, unlock |-> 0]
      [] e.msg \in {"Pixel buffer base address is null",
                    "Failed to create image from buffer"} ->
            [content |-> 1, frame |-> 1, lock |-> 1, unlock |-> 1]

\* every request and the lock are issued at most once, and a failed call has
\* issued exactly those up to its failure
IssuedOnce ==
    /\ counts.content <= 1 /\ counts.frame <= 1 /\ counts.lock <= 1 /\ counts.unlock <= 1
    /\ (Done /\ ~result[1].ok) =>
          \A f \in {"content", "frame", "lock", "unlock"} :
              counts[f] = CountsAtFailure(result[1].err)[f]

\* C20: nothing is retried: within one capture call the frame request is
\* issued at most once and the lock attempted at most once; after any failure
\* (content query, frame request, missing image buffer, lock, null base
\* address, image construction) no further OS request or lock attempt is
\* made and the failure is returned to the caller.
C20_NothingRetried ==
    /\ []IssuedOnce
    /\ [][result # None => (counts' = counts /\ result' = result)]_vars

\* the frame request failed: it was issued once, nothing was locked, and the
\* failure was returned
C20_Witness ==
    /\ Done
    /\ frameError # NoError
    /\ result[1] = Err(capture_failed("Screenshot capture failed", frameError))
    /\ counts.frame = 1
    /\ counts.lock = 0

\* a fixed-point value in whole pixels, truncated toward zero
Trunc(v) == IF v < 0 THEN -((-v) \div 2) ELSE v \div 2

\* a fixed-point value as an unsigned pixel count: truncated, negative is 0
Pixels(v) == IF v <= 0 THEN 0 ELSE v \div 2

\* n - 1, and 0 for n = 0
Pred(n) == IF n = 0 THEN 0 ELSE n - 1

\* the returned image has the size of the crop rectangle
ReturnedCropSize ==
    /\ Done
    /\ result[1].ok
    /\ result[1].val.width = crop[1].width
    /\ result[1].val.height = crop[1].height
    /\ Len(result[1].val.data) = crop[1].width * crop[1].height * 4

\* C21 as stated (frame values in whole pixels, image_width - 1 read as 0
\* for an empty image): for every window frame and owning display, the
\* fallback first display included,
\* crop_x = min(window_x - display_x, image_width - 1),
\* crop_y = min(window_y - display_y, image_height - 1),
\* crop_width = min(window_width, image_width - crop_x),
\* crop_height = min(window_height, image_height - crop_y),
\* and the returned image has crop_width x crop_height pixels.
C21_CropIsTranslatedFrame ==
    crop # None =>
        LET f == window_frame[1]
            d == display[1]
            c == crop[1]
        IN  /\ c.x = Min(Trunc(f.x - d.x), Pred(c.image_width))
            /\ c.y = Min(Trunc(f.y - d.y), Pred(c.image_height))
            /\ c.width = Min(Trunc(f.w), c.image_width - c.x)
            /\ c.height = Min(Trunc(f.h), c.image_height - c.y)
            /\ ReturnedCropSize

\* C21, amended: the translated origin and the frame size are converted to
\* unsigned pixels (truncated toward zero, a negative value becomes 0) and
\* image_width - 1 / image_height - 1 are 0 for an empty image; with these,
\* crop_x = min(pixels(window_x - display_x), image_width - 1), likewise
\* crop_y, crop_width = min(pixels(window_width), image_width - crop_x),
\* likewise crop_height, and the returned window image has exactly
\* crop_width x crop_height pixels.
C21_CropIsClampedFrame ==
    crop # None =>
        LET f == window_frame[1]
            d == display[1]
            c == crop[1]
        IN  /\ c.x = Min(Pixels(f.x - d.x), Pred(c.image_width))
            /\ c.y = Min(Pixels(f.y - d.y), Pred(c.image_height))
            /\ c.width = Min(Pixels(f.w), c.image_width - c.x)
            /\ c.height = Min(Pixels(f.h), c.image_height - c.y)
            /\ ReturnedCropSize

\* the window's origin lies left of and above the first display, which owns
\* it as the fallback: the crop starts at (0,0) and the image has its size
C21_Witness ==
    /\ crop # None
    /\ Containing(osDisplays, window_frame[1]) = {}
    /\ window_frame[1].x < display[1].x
    /\ window_frame[1].y < display[1].y
    /\ crop[1].x = 0 /\ crop[1].y = 0
    /\ crop[1].width > 0 /\ crop[1].height > 0
    /\ result[1].val.width = crop[1].width
    /\ result[1].val.height = crop[1].height

----------------------------------------------------------------------------
(* Properties of enumeration, continued (SpecEnum) *)

\* what enumeration returns for a failed query with description e
EnumerationError(e) ==
    IF MentionsPermission(e)
    THEN Err(permission_denied)
    ELSE Err(capture_failed("Failed to get shareable content", e))

\* C12: in Window::all and Monitor::all a failed shareable-content query is
\* returned as PermissionDenied if and only if the OS description contains
\* 'permission', 'denied' or '-3801', and otherwise as CaptureFailed carrying
\* the description; in both cases the call returns the error and no list.
C12_EnumerationPermissionDenied ==
    osError # NoError =>
        /\ monitorsRes # None =>
              /\ ~monitorsRes[1].ok
              /\ monitorsRes[1] = EnumerationError(osError)
              /\ (monitorsRes[1].err.kind = "PermissionDenied") <=> MentionsPermission(osError)
        /\ windowsRes # None =>
              /\ ~windowsRes[1].ok
              /\ windowsRes[1] = EnumerationError(osError)
              /\ (windowsRes[1].err.kind = "PermissionDenied") <=> MentionsPermission(osError)

\* the query failed with the error code only; both calls report the permission
C12_Witness ==
    /\ osError = Chars("code=") \o Chars("-3801")
    /\ monitorsRes = Some(Err(permission_denied))
    /\ windowsRes = Some(Err(permission_denied))

\* the reported window a returned Window was built from
SourceWindow(win) ==
    osWindows[CHOOSE j \in DOMAIN osWindows : osWindows[j].id = win.window_id]

\* C13: in Window::all the composition service is the primary source and the
\* CGWindow list only backfills.  For every returned Window: the title is the
\* primary title; a non-empty primary app name and a non-negative primary pid
\* are returned unchanged whatever the secondary record holds; the secondary
\* app name is used only when the primary name is empty, the secondary pid
\* only when the primary pid is negative; without a usable secondary value
\* the result keeps the empty name / pid -1.
C13_SecondaryOnlyBackfills ==
    WindowsOk =>
        \A i \in DOMAIN WindowsVal :
            LET win == WindowsVal[i]
                w == SourceWindow(win)
                cg == cgWindows[w.id]
                primary_name == IF w.app = None THEN "" ELSE w.app[1].name
                primary_pid == IF w.app = None THEN -1 ELSE w.app[1].pid
            IN  /\ win.title = (IF w.title = None THEN "" ELSE w.title[1])
                /\ primary_name # "" => win.app_name = primary_name
                /\ primary_pid >= 0 => win.pid = primary_pid
                /\ primary_name = "" =>
                      win.app_name = (IF cg # None THEN cg[1].name ELSE "")
                /\ primary_pid < 0 =>
                      win.pid = (IF cg # None /\ cg[1].pid >= 0 THEN cg[1].pid ELSE -1)

\* the service reported a pid but no app name, the CGWindow list has both:
\* the name is backfilled, the pid is the primary one
C13_Witness ==
    /\ WindowsOk
    /\ \E i \in DOMAIN WindowsVal :
          LET w == SourceWindow(WindowsVal[i])
          IN  /\ w.app = Some([name |-> "", pid |-> 42])
              /\ cgWindows[w.id] = Some([name |-> "Finder", title |-> "Desktop", pid |-> 77])
              /\ WindowsVal[i].app_name = "Finder"
              /\ WindowsVal[i].pid = 42
              /\ WindowsVal[i].title = "Untitled"

----------------------------------------------------------------------------
(* Properties of the blocking entry points (SpecRuntime) *)

\* C14: for every blocking entry point, a call made inside an active async
\* context performs the blocking wait on a newly spawned worker thread,
\* exactly one per call, and returns only after joining it; a call made
\* outside a context waits on the calling thread; the runtime's block_on is
\* never entered on a thread that is inside an active async context.
C14_BlockingWaitOffContext ==
    /\ \A c \in Calls :
          /\ callPc[c] = "ready" => spawned[c] = 0
          /\ callPc[c] # "ready" =>
                /\ onWorker[c] = inContext[c]
                /\ spawned[c] = (IF inContext[c] THEN 1 ELSE 0)
          /\ callPc[c] = "returned" => joined[c] = spawned[c]
          /\ callPc[c] # "returned" => joined[c] = 0
          /\ callPc[c] # "panicked"
    /\ \A e \in entered :
          /\ ~e.in_context
          /\ e.thread = (IF inContext[e.call] THEN "worker" ELSE "caller")

\* a call from inside a context returned through its one worker, a call from
\* outside returned without one
C14_Witness ==
    \E c, d \in Calls :
        /\ inContext[c] /\ callPc[c] = "returned"
        /\ spawned[c] = 1 /\ joined[c] = 1
        /\ ~inContext[d] /\ callPc[d] = "returned"
        /\ spawned[d] = 0
        /\ \E e \in entered : e.call = c /\ e.thread = "worker"
        /\ \E e \in entered : e.call = d /\ e.thread = "caller"

\* C19: the shared runtime is created at most once per process and never
\* torn down: under any interleaving of concurrent first calls from several
\* threads (direct callers and workers) exactly one runtime is built, every
\* block_on uses that same runtime, and no runtime is built before the first
\* blocking call.
C19_RuntimeBuiltOnce ==
    /\ builds <= 1
    /\ (runtime = "built") <=> (builds = 1)
    /\ \A e \in entered : e.runtime = 1 /\ runtime = "built"
    /\ \A c \in Calls : rt[c] \in {0, 1}
    /\ runtime # "uninit" => \E c \in Calls : callPc[c] # "ready"
    /\ (\E c \in Calls : callPc[c] \in {"deref_done", "waiting", "waiting_frame", "finished",
                                         "returned"})
          => builds = 1

\* a direct caller and a worker thread have both entered block_on, with the
\* one runtime
C19_Witness ==
    /\ \E c, d \in Calls : onWorker[c] /\ ~onWorker[d]
    /\ \A c \in Calls : callPc[c] \in {"waiting", "waiting_frame", "finished", "returned"}
                         /\ rt[c] = 1
    /\ Cardinality(entered) = MaxCalls
    /\ builds = 1

----------------------------------------------------------------------------
(* Properties of the Window queries (SpecWindow) *)

\* C17: Window::is_minimized is not stored: for every Window it returns
\* Ok(b) with b the negation of the on-screen flag, is_minimized() = not
\* is_on_screen(); a window on screen is never reported minimized and a
\* window off screen always is.
C17_MinimizedIsNotOnScreen ==
    minimizedRes # None =>
        /\ minimizedRes[1].ok
        /\ minimizedRes[1].val = ~queried[1].is_on_screen
        /\ onScreenRes # None => (minimizedRes[1].val <=> ~onScreenRes[1])

\* an enumerated window that is off screen is reported minimized
C17_Witness ==
    /\ queried # None
    /\ queried[1] \in EnumeratedWindows
    /\ onScreenRes = Some(FALSE)
    /\ minimizedRes = Some(Ok(TRUE))

----------------------------------------------------------------------------
(* Properties of Monitor::primary (SpecMonitor) *)

NoPrimaryError == Err(XCapError("Other", 0, "No primary monitor found", NoError))

\* C23: Monitor::primary succeeds whenever the underlying Monitor::all
\* succeeds: for every non-empty display set it returns the Monitor flagged
\* is_primary and never the 'No primary monitor found' error; it fails only
\* with the error Monitor::all itself returned.
C23_PrimaryFound ==
    primaryRes # None =>
        /\ primaryRes[1] # NoPrimaryError
        /\ (osError = NoError /\ osDisplays # <<>>) =>
              /\ primaryRes[1].ok
              /\ primaryRes[1].val.is_primary
              /\ primaryRes[1].val.display_id =
                    osDisplays[ExpectedPrimaryIndex(osDisplays)].id
        /\ monitorsRes # None =>
              /\ primaryRes[1].ok <=> monitorsRes[1].ok
              /\ monitorsRes[1].ok =>
                    \E i \in PrimaryIndices(MonitorsVal) : primaryRes[1].val = MonitorsVal[i]
              /\ ~monitorsRes[1].ok => primaryRes[1] = monitorsRes[1]

\* two displays, none at (0,0): the first one is returned as the primary
C23_Witness ==
    /\ primaryRes # None
    /\ monitorsRes # None
    /\ Len(osDisplays) = 2
    /\ OriginIndices(osDisplays) = {}
    /\ primaryRes[1].ok
    /\ primaryRes[1].val.display_id = osDisplays[1].id
    /\ primaryRes[1].val.is_primary

----------------------------------------------------------------------------
(* Liveness of the capture calls (SpecRuntimeFair) *)

\* a result exists only once the OS has completed the request, and a call
\* that has a result or has returned has one
ReturnsAfterCompletion ==
    \A c \in Calls :
        /\ callPc[c] \in {"finished", "returned"} <=> outcome[c] # None
        /\ callPc[c] = "returned" => joined[c] = spawned[c]

\* while the OS has not completed a request, the call waits: nothing but the
\* completion ends the wait
OnlyCompletionEndsWait ==
    \A c \in Calls :
        (callPc[c] \in {"waiting", "waiting_frame"} /\ callPc'[c] # callPc[c]) =>
            \/ callPc'[c] = "finished" /\ outcome'[c] # None
            \/ callPc[c] = "waiting" /\ callPc'[c] = "waiting_frame"

\* C22: if the OS eventually completes every asynchronous request it is
\* given, then under fair scheduling every capture call eventually returns to
\* its caller with an image or an error, on the direct path and on the
\* worker-thread path (the worker finishes and the join returns); there is
\* no timeout or cancellation, a call returns only after the OS completion.
C22_EveryCallReturns ==
    /\ \A c \in Calls : <>(callPc[c] = "returned" /\ outcome[c] # None)
    /\ []ReturnsAfterCompletion
    /\ [][OnlyCompletionEndsWait]_vars

\* a capture made inside a context returned an error of the frame request
\* through its worker, a capture made outside returned an image directly
C22_Witness ==
    \E c, d \in Calls :
        /\ entry[c] \in CaptureEntryPoints /\ entry[d] \in CaptureEntryPoints
        /\ inContext[c] /\ ~inContext[d]
        /\ callPc[c] = "returned" /\ callPc[d] = "returned"
        /\ joined[c] = 1
        /\ outcome[c] = Some("err")
        /\ outcome[d] = Some("ok")

====
